---- MODULE Spec2Model ----
(***************************************************************************)
(* Model of trace/trace_code.py: collect_paths walks a directory tree and  *)
(* selects files by directory prefix and filename pattern; main calls it   *)
(* twice and writes the two lists under trace/.                            *)
(*                                                                         *)
(* Strings are sequences of one-character strings, so that str.startswith, *)
(* fnmatch, os.path.join, os.path.relpath and the line structure of the    *)
(* output files are computed character by character (POSIX conventions).   *)
(***************************************************************************)
EXTENDS Integers, Sequences, FiniteSets, TLC

VARIABLES
    fs,            \* the file system below the scan root
    base_dir,      \* collect_paths' base_dir (main: repo_path = os.getcwd())
    dirs_include,  \* collect_paths' dirs_include
    patterns,      \* collect_paths' patterns
    stack,         \* os.walk: directories still to be scanned
    matches,       \* collect_paths' matches
    visited,       \* the directories os.walk has yielded, in order
    pc,            \* position in main, or in a direct call of collect_paths
    status,        \* "running", "ok" (returned / exited 0) or "failed" (raised)
    run,           \* number of the current invocation of the tool
    logic_files,   \* main's logic_files
    all_files,     \* main's all_files
    content,       \* bytes of the two output files, or Absent
    out,           \* lines printed on standard output by the current run
    prev,          \* content as it was when the current run started
    prev_status    \* how the previous run ended ("none" before the first)

vars == <<fs, base_dir, dirs_include, patterns, stack, matches, visited, pc,
          status, run, logic_files, all_files, content, out, prev, prev_status>>

----------------------------------------------------------------------------
(* Bounds                                                                  *)

MaxFiles == 2
MaxRuns == 2

----------------------------------------------------------------------------
(* Program constants, lines 5-16                                           *)

IGNORE_DIRS ==
    { <<".","g","i","t">>, <<".","g","i","t","i","g","n","o","r","e">>, <<".","n","e","x","t">>, <<"n","o","d","e","_","m","o","d","u","l","e","s">>, <<".","v","s","c","o","d","e">>, <<"d","o","c","s">> }

IGNORE_FILES ==
    { <<"p","a","c","k","a","g","e",".","j","s","o","n">>, <<"p","a","c","k","a","g","e","-","l","o","c","k",".","j","s","o","n">>, <<"R","E","A","D","M","E",".","m","d">>, <<"c","o","m","p","o","n","e","n","t","s",".","j","s","o","n">>,
      <<"t","s","c","o","n","f","i","g",".","j","s","o","n">>, <<"n","e","x","t","-","e","n","v",".","d",".","t","s">>, <<"n","e","x","t",".","c","o","n","f","i","g",".","t","s">>,
      <<"p","o","s","t","c","s","s",".","c","o","n","f","i","g",".","m","j","s">>, <<"t","a","i","l","w","i","n","d",".","c","o","n","f","i","g",".","t","s">>, <<".","e","n","v">>, <<".","m","o","d","i","f","i","e","d">> }

LOGIC_PATTERNS == << <<"*",".","t","s">>, <<"*",".","t","s","x">>, <<"*",".","j","s">>, <<"*",".","p","y">> >>

LOGIC_DIRS ==
    << <<"s","r","c","/","a","i">>, <<"s","r","c","/","l","i","b">>, <<"s","r","c","/","s","e","r","v","i","c","e","s">>, <<"s","r","c","/","m","i","d","d","l","e","w","a","r","e">>, <<"s","r","c","/","h","o","o","k","s">> >>

STYLE_DIRS == << <<"s","r","c","/","c","o","m","p","o","n","e","n","t","s">>, <<"s","r","c","/","a","p","p">> >>

SEP == "/"
LINESEP == "\n"
\* what content holds for a file that does not exist (no byte string is this)
Absent == <<"absent">>

----------------------------------------------------------------------------
(* String and path functions of the Python library, as the code uses them  *)

Range(s) == { s[i] : i \in 1..Len(s) }

\* str.startswith
StartsWith(s, p) == Len(p) <= Len(s) /\ SubSeq(s, 1, Len(p)) = p

\* str.split(sep) for a one-character separator
RECURSIVE Split(_, _)
Split(s, sep) ==
    IF \E i \in 1..Len(s) : s[i] = sep
    THEN LET i == CHOOSE k \in 1..Len(s) :
                     s[k] = sep /\ \A j \in 1..(k - 1) : s[j] # sep
         IN <<SubSeq(s, 1, i - 1)>> \o Split(SubSeq(s, i + 1, Len(s)), sep)
    ELSE <<s>>

\* sep.join(parts)
RECURSIVE JoinAll(_, _)
JoinAll(parts, sep) ==
    IF parts = <<>> THEN <<>>
    ELSE IF Len(parts) = 1 THEN parts[1]
    ELSE parts[1] \o <<sep>> \o JoinAll(Tail(parts), sep)

\* the non-empty components of a path
Parts(p) == SelectSeq(Split(p, SEP), LAMBDA x : x # <<>>)

\* posixpath.join(a, b)
JoinPath(a, b) ==
    IF b # <<>> /\ b[1] = SEP THEN b
    ELSE IF a = <<>> \/ a[Len(a)] = SEP THEN a \o b
    ELSE a \o <<SEP>> \o b

\* length of the longest common prefix of two component lists
RECURSIVE CommonLen(_, _)
CommonLen(a, b) ==
    IF a = <<>> \/ b = <<>> \/ a[1] # b[1] THEN 0
    ELSE 1 + CommonLen(Tail(a), Tail(b))

\* posixpath.relpath(path, start), both absolute
RelPath(path, start) ==
    LET start_list == Parts(start)
        path_list == Parts(path)
        i == CommonLen(start_list, path_list)
        ups == [k \in 1..(Len(start_list) - i) |-> <<".", ".">>]
        rel_list == ups \o SubSeq(path_list, i + 1, Len(path_list))
    IN IF rel_list = <<>> THEN <<".">> ELSE JoinAll(rel_list, SEP)

\* fnmatch.fnmatchcase(name, pat) for patterns made of literals, * and ?
RECURSIVE FnMatch(_, _)
FnMatch(name, pat) ==
    IF pat = <<>> THEN name = <<>>
    ELSE IF pat[1] = "*"
         THEN \E k \in 0..Len(name) :
                  FnMatch(SubSeq(name, k + 1, Len(name)), Tail(pat))
    ELSE IF pat[1] = "?"
         THEN name # <<>> /\ FnMatch(Tail(name), Tail(pat))
    ELSE name # <<>> /\ name[1] = pat[1] /\ FnMatch(Tail(name), Tail(pat))

\* fnmatch.filter(names, pat): the names that match, in the order of names
FnFilter(names, pat) == SelectSeq(names, LAMBDA n : FnMatch(n, pat))

----------------------------------------------------------------------------
(* The file system.  fs.list maps each directory, named by its components  *)
(* below the scan root, to its entries in the order os.scandir enumerates  *)
(* them; fs.unreadable holds the directories whose listing is denied.      *)

\* the components of an absolute path below base_dir
Key(top) == Parts(SubSeq(top, Len(base_dir) + 1, Len(top)))

\* os.scandir(top) raises OSError: top is missing or may not be listed
ScanFails(top) ==
    \/ ~fs.exists
    \/ Key(top) \notin DOMAIN fs.list
    \/ Key(top) \in fs.unreadable

\* os.walk's dirs and nondirs for top, in enumeration order
EntryNames(top, wantdir) ==
    LET es == SelectSeq(fs.list[Key(top)], LAMBDA e : e.isdir = wantdir)
    IN [i \in 1..Len(es) |-> es[i].name]

Reverse(s) == [i \in 1..Len(s) |-> s[Len(s) + 1 - i]]

----------------------------------------------------------------------------
(* collect_paths, lines 19-36                                              *)

\* a faulty variant of PruneDirs: nothing is pruned
PruneDirs_KeepAll(dirs) == dirs
\* line 27: dirs[:] = [d for d in dirs if d not in IGNORE_DIRS]
PruneDirs(dirs) == SelectSeq(dirs, LAMBDA d : d \notin IGNORE_DIRS)

\* a faulty variant of InIncluded: the prefix must end at a path separator
InIncluded_BySegment(rel, incl) ==
    \E i \in 1..Len(incl) :
        rel = incl[i] \/ StartsWith(rel, incl[i] \o <<SEP>>)
\* line 30: any(rel.startswith(d) for d in dirs_include)
InIncluded(rel, incl) == \E i \in 1..Len(incl) : StartsWith(rel, incl[i])

\* lines 33-34: if filename in IGNORE_FILES: continue
KeepFile(filename) == filename \notin IGNORE_FILES

\* lines 32-35 for one pattern
MatchesOf(root, files, pattern) ==
    LET hit == SelectSeq(FnFilter(files, pattern), KeepFile)
    IN [i \in 1..Len(hit) |-> JoinPath(root, hit[i])]

\* lines 31-35: for pattern in patterns: for filename in fnmatch.filter(...)
RECURSIVE MatchesIn(_, _, _)
MatchesIn(root, files, pats) ==
    IF pats = <<>> THEN <<>>
    ELSE MatchesOf(root, files, pats[1]) \o MatchesIn(root, files, Tail(pats))

\* a faulty variant of WalkOnError: the error of scandir is raised
WalkOnError_Raise == "raise"
\* os.walk(base_dir) is called without onerror: a failing scandir is ignored
WalkOnError == "ignore"

\* a faulty variant of PushDirs: the sub-directories pop in the opposite order
PushDirs_Forward(top, dirs) == [i \in 1..Len(dirs) |-> JoinPath(top, dirs[i])]
\* os.walk pushes the sub-directories so that they pop in enumeration order
PushDirs(top, dirs) ==
    LET r == Reverse(dirs) IN [i \in 1..Len(r) |-> JoinPath(top, r[i])]

\* line 24 and the start of os.walk: matches = [], stack = [base_dir]
CallCollect(incl, pats) ==
    /\ dirs_include' = incl
    /\ patterns' = pats
    /\ matches' = <<>>
    /\ stack' = <<base_dir>>
    /\ visited' = <<>>

\* one iteration of "for root, dirs, files in os.walk(base_dir)", lines 25-35
WalkStep ==
    /\ status = "running"
    /\ pc \in {"collect", "collect1", "collect2"}
    /\ stack # <<>>
    /\ LET root == stack[Len(stack)]
           rest == SubSeq(stack, 1, Len(stack) - 1)
       IN IF ScanFails(root)
          THEN /\ stack' = rest
               /\ status' = IF WalkOnError = "ignore" THEN status ELSE "failed"
               /\ UNCHANGED <<matches, visited>>
          ELSE LET dirs == PruneDirs(EntryNames(root, TRUE))
                   files == EntryNames(root, FALSE)
                   rel == RelPath(root, base_dir)
               IN /\ visited' = Append(visited, root)
                  /\ matches' = IF InIncluded(rel, dirs_include)
                                THEN matches \o MatchesIn(root, files, patterns)
                                ELSE matches
                  /\ stack' = rest \o PushDirs(root, dirs)
                  /\ UNCHANGED status
    /\ UNCHANGED <<fs, base_dir, dirs_include, patterns, pc, run, logic_files,
                   all_files, content, out, prev, prev_status>>

\* line 36 in a direct call: return matches
Return ==
    /\ status = "running"
    /\ pc = "collect"
    /\ stack = <<>>
    /\ pc' = "returned"
    /\ status' = "ok"
    /\ UNCHANGED <<fs, base_dir, dirs_include, patterns, stack, matches, visited,
                   run, logic_files, all_files, content, out, prev, prev_status>>

----------------------------------------------------------------------------
(* main, lines 39-62                                                       *)

\* lines 43, 48, 56: the output directory and the two output files
OutputDir == JoinPath(base_dir, <<"t","r","a","c","e">>)
LogicOutput == JoinPath(OutputDir, <<"l","o","g","i","c","_","f","i","l","e","s",".","t","x","t">>)
CombinedOutput == JoinPath(OutputDir, <<"l","o","g","i","c","_","s","t","y","l","e","_","f","i","l","e","s",".","t","x","t">>)

\* a faulty variant of CombinedDirs: the logic prefixes are left out
CombinedDirs_StyleOnly == STYLE_DIRS
\* line 54: combined_dirs = LOGIC_DIRS + STYLE_DIRS
CombinedDirs == LOGIC_DIRS \o STYLE_DIRS

\* lines 50-51 and 58-59: the bytes of "for path in ...: f.write(path + os.linesep)"
RECURSIVE Data(_)
Data(paths) ==
    IF paths = <<>> THEN <<>>
    ELSE paths[1] \o <<LINESEP>> \o Data(Tail(paths))

\* a faulty variant of OpenForWrite: mode 'a', which keeps what the file held
OpenForWrite_Append(old) == IF old = Absent THEN <<>> ELSE old
\* lines 49, 57: open(..., 'w') truncates what the file held
OpenForWrite(old) == <<>>

\* a faulty variant of Confirmation: each message names the other file
Confirmation_Swapped(which) ==
    IF which = "logic" THEN <<"Logic file list saved to: ", CombinedOutput>>
    ELSE <<"Logic+Style file list saved to: ", LogicOutput>>
\* lines 61-62: the two confirmations
Confirmation(which) ==
    IF which = "logic" THEN <<"Logic file list saved to: ", LogicOutput>>
    ELSE <<"Logic+Style file list saved to: ", CombinedOutput>>

\* a faulty variant of NextStep: both collections run before the first write
NextStep_WritesLast(step) ==
    CASE step = "makedirs" -> "collect1"
      [] step = "collect1" -> "collect2"
      [] step = "collect2" -> "write1"
      [] step = "write1" -> "write2"
      [] step = "write2" -> "print"
      [] step = "print" -> "done"
\* the order of main's steps: each line runs when the one before has finished
NextStep(step) ==
    CASE step = "makedirs" -> "collect1"
      [] step = "collect1" -> "write1"
      [] step = "write1" -> "collect2"
      [] step = "collect2" -> "write2"
      [] step = "write2" -> "print"
      [] step = "print" -> "done"

InsertAt(s, i, e) == SubSeq(s, 1, i - 1) \o <<e>> \o SubSeq(s, i, Len(s))

\* the file system after directory or file `name` was created in directory d
\* (nothing changes when it exists); pos is where the listing enumerates it
Created(f, d, name, isdir, pos) ==
    IF \E i \in 1..Len(f.list[d]) : f.list[d][i].name = name THEN f
    ELSE LET withEntry == [f.list EXCEPT
                 ![d] = InsertAt(@, pos, [name |-> name, isdir |-> isdir])]
             newList == IF isdir
                        THEN [k \in DOMAIN f.list \cup {Append(d, name)} |->
                                 IF k \in DOMAIN f.list THEN withEntry[k] ELSE <<>>]
                        ELSE withEntry
         IN [f EXCEPT !.list = newList]

\* where a new directory may show up in the enumeration of its parent: before
\* or after the entries that were there
Positions(f, d) == {1, Len(f.list[d]) + 1}

\* the byte counts at which a write that fails may stop: nothing, the end of
\* a line, or just before a line separator
CutPoints(data) ==
    {0} \cup { i \in 1..Len(data) : data[i] = LINESEP }
        \cup { i - 1 : i \in { j \in 1..Len(data) : data[j] = LINESEP } }

\* line 44: os.makedirs(output_dir, exist_ok=True); line 47 enters collect_paths
MakeDirs ==
    /\ status = "running"
    /\ pc = "makedirs"
    /\ \/ /\ \E pos \in Positions(fs, <<>>) :
                fs' = Created(fs, <<>>, <<"t","r","a","c","e">>, TRUE, pos)
          /\ pc' = NextStep(pc)
          /\ CallCollect(LOGIC_DIRS, LOGIC_PATTERNS)
          /\ UNCHANGED status
       \/ /\ status' = "failed"
          /\ UNCHANGED <<fs, pc, dirs_include, patterns, matches, stack, visited>>
    /\ UNCHANGED <<base_dir, run, logic_files, all_files, content, out, prev,
                   prev_status>>

\* line 47: logic_files = collect_paths(...) returns
Return1 ==
    /\ status = "running"
    /\ pc = "collect1"
    /\ stack = <<>>
    /\ logic_files' = matches
    /\ pc' = NextStep(pc)
    /\ UNCHANGED <<fs, base_dir, dirs_include, patterns, stack, matches, visited,
                   status, run, all_files, content, out, prev, prev_status>>

\* a "with open(path, 'w') as f: for path in paths: f.write(...)" block:
\* open fails and leaves the file alone, or the file is created (enumerated
\* after the entries trace/ held) or truncated and then all of the data, or on
\* a failure only a part of it, is written
WriteFile(which, name, paths, ok) ==
    \/ /\ ok = FALSE
       /\ UNCHANGED <<fs, content>>
    \/ /\ fs' = Created(fs, << <<"t","r","a","c","e">> >>, name, FALSE,
                         Len(fs.list[<< <<"t","r","a","c","e">> >>]) + 1)
       /\ IF ok
          THEN content' = [content EXCEPT
                   ![which] = OpenForWrite(@) \o Data(paths)]
          ELSE \E n \in CutPoints(Data(paths)) :
                   content' = [content EXCEPT
                       ![which] = OpenForWrite(@) \o SubSeq(Data(paths), 1, n)]

\* lines 48-51, then line 55 enters collect_paths
Write1 ==
    /\ status = "running"
    /\ pc = "write1"
    /\ \E ok \in BOOLEAN :
         /\ WriteFile("logic", <<"l","o","g","i","c","_","f","i","l","e","s",".","t","x","t">>, logic_files, ok)
         /\ IF ok
            THEN /\ pc' = NextStep(pc)
                 /\ CallCollect(CombinedDirs, LOGIC_PATTERNS)
                 /\ UNCHANGED status
            ELSE /\ status' = "failed"
                 /\ UNCHANGED <<pc, dirs_include, patterns, matches, stack, visited>>
    /\ UNCHANGED <<base_dir, run, logic_files, all_files, out, prev, prev_status>>

\* line 55: all_files = collect_paths(...) returns
Return2 ==
    /\ status = "running"
    /\ pc = "collect2"
    /\ stack = <<>>
    /\ all_files' = matches
    /\ pc' = NextStep(pc)
    /\ UNCHANGED <<fs, base_dir, dirs_include, patterns, stack, matches, visited,
                   status, run, logic_files, content, out, prev, prev_status>>

\* lines 56-59
Write2 ==
    /\ status = "running"
    /\ pc = "write2"
    /\ \E ok \in BOOLEAN :
         /\ WriteFile("style", <<"l","o","g","i","c","_","s","t","y","l","e","_","f","i","l","e","s",".","t","x","t">>, all_files, ok)
         /\ IF ok
            THEN pc' = NextStep(pc) /\ UNCHANGED status
            ELSE status' = "failed" /\ UNCHANGED pc
    /\ UNCHANGED <<base_dir, dirs_include, patterns, stack, matches, visited, run,
                   logic_files, all_files, out, prev, prev_status>>

\* lines 61-62, and the normal end of the process
PrintConfirm ==
    /\ status = "running"
    /\ pc = "print"
    /\ out' = out \o <<Confirmation("logic"), Confirmation("style")>>
    /\ pc' = NextStep(pc)
    /\ status' = "ok"
    /\ UNCHANGED <<fs, base_dir, dirs_include, patterns, stack, matches, visited,
                   run, logic_files, all_files, content, prev, prev_status>>

\* the tool is started again in the same directory (lines 65-66)
NextRun ==
    /\ status \in {"ok", "failed"}
    /\ pc # "returned" /\ pc # "collect"
    /\ run < MaxRuns
    /\ run' = run + 1
    /\ pc' = "makedirs"
    /\ status' = "running"
    /\ prev' = content
    /\ prev_status' = status
    /\ out' = <<>>
    /\ logic_files' = <<>>
    /\ all_files' = <<>>
    /\ dirs_include' = <<>>
    /\ patterns' = <<>>
    /\ matches' = <<>>
    /\ stack' = <<>>
    /\ visited' = <<>>
    /\ UNCHANGED <<fs, base_dir, content>>

----------------------------------------------------------------------------
(* Inputs: the directory trees, roots, prefix lists and pattern lists the  *)
(* behaviours start from                                                   *)

\* candidate files, each the list of its path components below the root
Universe ==
    { << <<"s","r","c">>, <<"l","i","b">>, <<"a",".","t","s">> >>,
      << <<"s","r","c">>, <<"l","i","b">>, <<"b",".","j","s">> >>,
      << <<"s","r","c">>, <<"l","i","b">>, <<"n","e","x","t",".","c","o","n","f","i","g",".","t","s">> >>,
      << <<"s","r","c">>, <<"l","i","b">>, <<".","g","i","t">>, <<"c",".","t","s">> >>,
      << <<"s","r","c">>, <<"c","o","m","p","o","n","e","n","t","s">>, <<"b",".","t","s","x">> >>,
      << <<"s","r","c">>, <<"a","i","-","l","e","g","a","c","y">>, <<"e",".","p","y">> >>,
      << <<"p","a","c","k","a","g","e",".","j","s","o","n">> >> }

\* the tree of the scenario in the specification's testable properties
ScenarioFiles ==
    { << <<"s","r","c">>, <<"l","i","b">>, <<"a",".","t","s">> >>,
      << <<"s","r","c">>, <<"c","o","m","p","o","n","e","n","t","s">>, <<"b",".","t","s","x">> >>,
      << <<"s","r","c">>, <<"l","i","b">>, <<".","g","i","t">>, <<"c",".","t","s">> >>,
      << <<"n","o","d","e","_","m","o","d","u","l","e","s">>, <<"d",".","t","s">> >>,
      << <<"p","a","c","k","a","g","e",".","j","s","o","n">> >> }

\* one enumeration order of all entry names; directories may also list in
\* the opposite order
NameOrder ==
    << <<"a",".","t","s">>, <<"b",".","j","s">>, <<"b",".","t","s","x">>, <<"c",".","t","s">>, <<"d",".","t","s">>, <<"e",".","p","y">>, <<"n","e","x","t",".","c","o","n","f","i","g",".","t","s">>,
       <<"p","a","c","k","a","g","e",".","j","s","o","n">>,
       <<".","g","i","t">>, <<"a","i","-","l","e","g","a","c","y">>, <<"c","o","m","p","o","n","e","n","t","s">>, <<"l","i","b">>, <<"n","o","d","e","_","m","o","d","u","l","e","s">>, <<"s","r","c">> >>

DirsOf(S) ==
    UNION { { SubSeq(f, 1, k) : k \in 0..(Len(f) - 1) } : f \in S } \cup {<<>>}

MkTree(S, ord, unread) ==
    [ exists |-> TRUE,
      list |-> [d \in DirsOf(S) |->
                  LET names == SelectSeq(ord,
                                 LAMBDA n : Append(d, n) \in S \cup DirsOf(S))
                  IN [i \in 1..Len(names) |->
                        [name |-> names[i],
                         isdir |-> Append(d, names[i]) \in DirsOf(S)]]],
      unreadable |-> unread ]

MissingRoot == [exists |-> FALSE, list |-> <<>>, unreadable |-> {}]

FileSets == { S \in SUBSET Universe : Cardinality(S) <= MaxFiles } \cup {ScenarioFiles}

Unreadables(S) ==
    {{}} \cup { {d} : d \in DirsOf(S) \cap {<<>>, << <<"s","r","c">> >>, << <<"s","r","c">>, <<"l","i","b">> >>} }

MainTrees ==
    { MkTree(S, ord, u) :
        S \in FileSets, ord \in {NameOrder, Reverse(NameOrder)},
        u \in {{}, {<< <<"s","r","c">>, <<"l","i","b">> >>}} }

Trees ==
    UNION { { MkTree(S, ord, u) : u \in Unreadables(S) } :
              S \in FileSets, ord \in {NameOrder, Reverse(NameOrder)} }
        \cup {MissingRoot}

Bases == { <<"/","w">>, <<"/","d","o","c","s","/","w">> }

PrefixLists ==
    { LOGIC_DIRS, CombinedDirs, <<>>, << <<"s","r","c">>, <<"s","r","c","/","l","i","b">> >>, << <<".">> >> }

PatternLists ==
    { LOGIC_PATTERNS, <<>>, << <<"*",".","t","s">>, <<"*">> >>, << <<"?",".","j","s">>, <<"*",".","t","s">> >> }

----------------------------------------------------------------------------
(* The specification                                                       *)

\* a run of the tool in a directory that holds no trace/ yet
InitMain ==
    /\ fs \in MainTrees
    /\ base_dir \in Bases
    /\ pc = "makedirs"
    /\ dirs_include = <<>>
    /\ patterns = <<>>
    /\ stack = <<>>

\* a direct call collect_paths(base_dir, dirs_include, patterns)
InitCollect ==
    /\ fs \in Trees
    /\ base_dir = <<"/","w">>
    /\ pc = "collect"
    /\ dirs_include \in PrefixLists
    /\ patterns \in PatternLists
    /\ stack = <<base_dir>>

Init ==
    /\ InitMain \/ InitCollect
    /\ status = "running"
    /\ run = 1
    /\ matches = <<>>
    /\ visited = <<>>
    /\ logic_files = <<>>
    /\ all_files = <<>>
    /\ content = [logic |-> Absent, style |-> Absent]
    /\ out = <<>>
    /\ prev = [logic |-> Absent, style |-> Absent]
    /\ prev_status = "none"

Next ==
    \/ WalkStep
    \/ Return
    \/ MakeDirs
    \/ Return1
    \/ Write1
    \/ Return2
    \/ Write2
    \/ PrintConfirm
    \/ NextRun

Spec == Init /\ [][Next]_vars

----------------------------------------------------------------------------
(* Vocabulary of the properties: the tree and the output files as a reader *)
(* of the file system sees them, defined without the walk                  *)

InMain == pc \notin {"collect", "returned"}
Returned == pc = "returned" /\ status = "ok"
RunDone == pc = "done" /\ status = "ok"

\* the files of the tree: <<components of the containing directory, name>>
TreeFiles ==
    UNION { { <<d, fs.list[d][i].name>> :
                i \in { j \in 1..Len(fs.list[d]) : ~fs.list[d][j].isdir } } :
            d \in DOMAIN fs.list }

\* the absolute path of directory d, and of entry name in it
PathOfDir(d) == JoinAll(<<base_dir>> \o d, SEP)
PathOf(d, name) == JoinAll(<<base_dir>> \o d \o <<name>>, SEP)

\* the path of directory d relative to the root, "." for the root itself
RelOf(d) == IF d = <<>> THEN <<".">> ELSE JoinAll(d, SEP)

\* (a) the containing directory's relative path starts with a prefix
UnderPrefix(d, incl) == \E i \in 1..Len(incl) : StartsWith(RelOf(d), incl[i])
\* (b) the name matches at least one pattern
MatchesSome(name, pats) == \E i \in 1..Len(pats) : FnMatch(name, pats[i])
\* (c) the name is not an ignored file name
NotIgnoredFile(name) == name \notin IGNORE_FILES
\* (d) no directory component between the root and the file is ignored
NoIgnoredDir(d) == \A i \in 1..Len(d) : d[i] \notin IGNORE_DIRS
\* every directory from the root down to d can be listed
AllReadable(d) ==
    fs.exists /\ \A k \in 0..Len(d) : SubSeq(d, 1, k) \notin fs.unreadable
\* the walk gets to d: nothing above it is ignored or unreadable
Reachable(d) ==
    /\ fs.exists
    /\ NoIgnoredDir(d)
    /\ \A k \in 0..(Len(d) - 1) : SubSeq(d, 1, k) \notin fs.unreadable

Selectable(d, name, incl, pats) ==
    /\ UnderPrefix(d, incl)
    /\ MatchesSome(name, pats)
    /\ NotIgnoredFile(name)
    /\ NoIgnoredDir(d)

IsScenario ==
    /\ fs.exists
    /\ fs.unreadable = {}
    /\ TreeFiles = { <<SubSeq(f, 1, Len(f) - 1), f[Len(f)]>> : f \in ScenarioFiles }

\* the lines of an output file (str.splitlines), none when the file is absent
ReadLines(c) ==
    IF c = Absent \/ c = <<>> THEN <<>>
    ELSE LET p == Split(c, LINESEP)
         IN IF p[Len(p)] = <<>> THEN SubSeq(p, 1, Len(p) - 1) ELSE p

NoDuplicates(s) == \A i, j \in 1..Len(s) : s[i] = s[j] => i = j

IsPrefix(a, b) == Len(a) <= Len(b) /\ SubSeq(b, 1, Len(a)) = a

\* the selected files of one directory, in the order of its listing
InListingOrder(d, files, incl, pats) ==
    LET sel == SelectSeq(files,
                   LAMBDA f : MatchesSome(f, pats) /\ NotIgnoredFile(f))
    IN IF UnderPrefix(d, incl) THEN [i \in 1..Len(sel) |-> PathOf(d, sel[i])]
       ELSE <<>>

\* the selected files of one directory, pattern by pattern in the order of
\* the pattern list, and for one pattern in the order of the listing
RECURSIVE ByPattern(_, _, _)
ByPattern(d, files, pats) ==
    IF pats = <<>> THEN <<>>
    ELSE LET sel == SelectSeq(files,
                       LAMBDA f : FnMatch(f, pats[1]) /\ NotIgnoredFile(f))
         IN [i \in 1..Len(sel) |-> PathOf(d, sel[i])]
                \o ByPattern(d, files, Tail(pats))

NamesOf(d, wantdir) ==
    LET es == SelectSeq(fs.list[d], LAMBDA e : e.isdir = wantdir)
    IN [i \in 1..Len(es) |-> es[i].name]

\* the pre-order traversal: a directory's own files, then each listable,
\* non-ignored sub-directory in the order of the listing
RECURSIVE ExpectedFrom(_, _, _, _)
RECURSIVE ExpectedOver(_, _, _, _, _)
ExpectedFrom(d, incl, pats, byPattern) ==
    IF d \in fs.unreadable THEN <<>>
    ELSE LET files == NamesOf(d, FALSE)
             subs == SelectSeq(NamesOf(d, TRUE), LAMBDA n : n \notin IGNORE_DIRS)
             own == IF byPattern
                    THEN IF UnderPrefix(d, incl) THEN ByPattern(d, files, pats)
                         ELSE <<>>
                    ELSE InListingOrder(d, files, incl, pats)
         IN own \o ExpectedOver(d, subs, incl, pats, byPattern)
ExpectedOver(d, subs, incl, pats, byPattern) ==
    IF subs = <<>> THEN <<>>
    ELSE ExpectedFrom(Append(d, subs[1]), incl, pats, byPattern)
             \o ExpectedOver(d, Tail(subs), incl, pats, byPattern)

ExpectedSeq(incl, pats, byPattern) ==
    IF fs.exists THEN ExpectedFrom(<<>>, incl, pats, byPattern) ELSE <<>>

----------------------------------------------------------------------------
(* Properties                                                              *)

\* the scenario of C1: the logic pass selects exactly src/lib/a.ts, the
\* combined pass exactly src/lib/a.ts and src/components/b.tsx
ScenarioResult ==
    Returned /\ IsScenario /\ patterns = LOGIC_PATTERNS =>
        /\ dirs_include = LOGIC_DIRS =>
               Range(matches) = { JoinPath(base_dir, <<"s","r","c","/","l","i","b","/","a",".","t","s">>) }
        /\ dirs_include = LOGIC_DIRS \o STYLE_DIRS =>
               Range(matches) = { JoinPath(base_dir, <<"s","r","c","/","l","i","b","/","a",".","t","s">>),
                                  JoinPath(base_dir, <<"s","r","c","/","c","o","m","p","o","n","e","n","t","s","/","b",".","t","s","x">>) }

C2_Original ==
    InMain /\ status \in {"ok", "failed"} =>
        Range(ReadLines(content.logic)) \subseteq Range(ReadLines(content.style))

\* C2 amended: after every run of main that ends without failure, every path
\* listed in logic_files.txt is also listed in logic_style_files.txt.
C2_Subset ==
    RunDone =>
        Range(ReadLines(content.logic)) \subseteq Range(ReadLines(content.style))

\* a run has ended with a non-empty logic list and a larger combined list
C2_Witness ==
    /\ RunDone
    /\ ReadLines(content.logic) # <<>>
    /\ Len(ReadLines(content.style)) > Len(ReadLines(content.logic))

Components(p) == Parts(p)
ComponentsBelowRoot(p) == Parts(SubSeq(p, Len(base_dir) + 1, Len(p)))

OutputLines == Range(ReadLines(content.logic)) \cup Range(ReadLines(content.style))

\* C4 as stated: no path component of a path written to either output file
\* is a name in IGNORE_DIRS, and no directory with such a component is
\* visited, at any depth.
C4_Original ==
    InMain =>
        /\ \A p \in OutputLines : Range(Components(p)) \cap IGNORE_DIRS = {}
        /\ \A v \in Range(visited) : Range(ComponentsBelowRoot(v)) \cap IGNORE_DIRS = {}

\* C4 amended: no path component below the scan root of a path written to
\* either output file is a name in IGNORE_DIRS (the written paths are
\* absolute, and the components of the root itself are not examined), and no
\* directory with such a component below the root is visited, at any depth.
C4_NoIgnoredComponent ==
    InMain =>
        /\ \A p \in OutputLines :
               Range(ComponentsBelowRoot(p)) \cap IGNORE_DIRS = {}
        /\ \A v \in Range(visited) : Range(ComponentsBelowRoot(v)) \cap IGNORE_DIRS = {}

\* a run has ended with paths written, on a tree that holds an ignored
\* directory two levels below the root, under a root one of whose own
\* components is an ignored name
C4_Witness ==
    /\ RunDone
    /\ OutputLines # {}
    /\ << <<"s","r","c">>, <<"l","i","b">>, <<".","g","i","t">> >> \in DOMAIN fs.list
    /\ base_dir = <<"/","d","o","c","s","/","w">>

\* C5: when the tool has run to its end twice in succession, the second run
\* leaves in both output files what the first run left there, the first run
\* being the one that created trace/ and the files inside the scanned root.
C5_Idempotent ==
    RunDone /\ run >= 2 /\ prev_status = "ok" => content = prev

\* the second of two completed runs has ended with non-empty output files
C5_Witness ==
    /\ RunDone
    /\ run = 2
    /\ prev_status = "ok"
    /\ content.logic # <<>>
    /\ content.style # content.logic
    /\ << <<"t","r","a","c","e">> >> \in DOMAIN fs.list

\* C6: when a run fails while collecting or writing the second output, the
\* first output holds what this run wrote, the second holds what it held
\* before the run (absent on a first run) or a part of the new data, and
\* nothing follows the failure but a new invocation.
C6_NoRollback ==
    /\ [](status = "failed" /\ pc \in {"collect2", "write2"} =>
            /\ content.logic = Data(logic_files)
            /\ \/ content.style = prev.style
               \/ content.style # Absent /\ IsPrefix(content.style, Data(all_files)))
    /\ [][status = "failed" /\ pc \in {"collect2", "write2"} =>
            run' = run + 1 /\ pc' = "makedirs" /\ content' = content]_vars

\* the second run has failed in writing the second file, which still holds
\* the data of the first run, after it wrote the first file
C6_Witness ==
    /\ status = "failed"
    /\ pc = "write2"
    /\ run = 2
    /\ logic_files # <<>>
    /\ content.style = prev.style
    /\ prev.style \notin {Absent, <<>>}

StepNames == <<"makedirs", "collect1", "write1", "collect2", "write2", "print", "done">>
StepIndex(step) == CHOOSE i \in 1..Len(StepNames) : StepNames[i] = step

\* C7: a run of main goes through create directory, collect logic, write
\* logic_files.txt, collect combined, write logic_style_files.txt, print, in
\* this order, each once, each starting when the one before has finished and
\* acting only in its turn; a failure ends the run.
C7_LinearPass ==
    [][InMain =>
        /\ pc' # pc =>
              \/ /\ status = "running"
                 /\ status' # "failed"
                 /\ pc # "done"
                 /\ pc' = StepNames[StepIndex(pc) + 1]
              \/ /\ status \in {"ok", "failed"}
                 /\ run' = run + 1
                 /\ pc' = "makedirs"
        /\ status = "failed" => status' = "failed" \/ run' = run + 1
        /\ pc \in {"collect1", "collect2"} /\ pc' # pc => stack = <<>>
        /\ fs' # fs => pc \in {"makedirs", "write1", "write2"}
        /\ matches' \notin {matches, <<>>} => pc \in {"collect1", "collect2"} /\ pc' = pc
        /\ logic_files' \notin {logic_files, <<>>} => pc = "collect1"
        /\ all_files' \notin {all_files, <<>>} => pc = "collect2"
        /\ content'.logic # content.logic => pc = "write1"
        /\ content'.style # content.style => pc = "write2"
        /\ out' \notin {out, <<>>} => pc = "print"
    ]_vars

\* a second run has run to its end, on an existing trace/, after a first run
\* that failed
C7_Witness ==
    /\ RunDone
    /\ run = 2
    /\ prev_status = "failed"
    /\ all_files # <<>>

WrittenThisRun(which) ==
    IF which = "logic" THEN pc \in {"collect2", "write2", "print", "done"}
    ELSE pc \in {"print", "done"}

Confirmed(path) == \E i \in 1..Len(out) : out[i][2] = path

\* C8 as stated: when a run has ended, each output file it wrote successfully
\* has its confirmation printed; a run without failure has printed both.
C8_Original ==
    InMain /\ status \in {"ok", "failed"} =>
        /\ WrittenThisRun("logic") =>
               Confirmed(PathOf(<< <<"t","r","a","c","e">> >>, <<"l","o","g","i","c","_","f","i","l","e","s",".","t","x","t">>))
        /\ WrittenThisRun("style") =>
               Confirmed(PathOf(<< <<"t","r","a","c","e">> >>, <<"l","o","g","i","c","_","s","t","y","l","e","_","f","i","l","e","s",".","t","x","t">>))

\* C8 amended: the two confirmations, one naming each output file, are
\* printed together as the last step, after both files have been written; a
\* run without failure has printed both, and a run that fails has printed
\* none, also when it had written logic_files.txt successfully.
C8_ConfirmAtEnd ==
    InMain =>
        out = IF RunDone
              THEN << <<"Logic file list saved to: ",
                        PathOf(<< <<"t","r","a","c","e">> >>, <<"l","o","g","i","c","_","f","i","l","e","s",".","t","x","t">>)>>,
                      <<"Logic+Style file list saved to: ",
                        PathOf(<< <<"t","r","a","c","e">> >>, <<"l","o","g","i","c","_","s","t","y","l","e","_","f","i","l","e","s",".","t","x","t">>)>> >>
              ELSE <<>>

\* a run has failed in writing the second file after it wrote a non-empty
\* first file, and has printed nothing
C8_Witness ==
    /\ status = "failed"
    /\ pc = "write2"
    /\ logic_files # <<>>
    /\ content.logic = Data(logic_files)
    /\ out = <<>>

\* C9 as stated: the result of collect_paths, and the lines of each output
\* file, are in traversal order: directories as the walk visits them, a
\* directory before its descendants, and within a directory the selected
\* files in the order of its listing.  (Read on the results that hold no path
\* twice, so that the repetition of C10 is not what decides it.)
C9_Original ==
    /\ Returned /\ NoDuplicates(matches) =>
          matches = ExpectedSeq(dirs_include, patterns, FALSE)
    /\ RunDone =>
          /\ ReadLines(content.logic) = ExpectedSeq(LOGIC_DIRS, LOGIC_PATTERNS, FALSE)
          /\ ReadLines(content.style) =
                 ExpectedSeq(LOGIC_DIRS \o STYLE_DIRS, LOGIC_PATTERNS, FALSE)

\* C9 amended: directories as the walk visits them, a directory before its
\* descendants; within a directory the selected files pattern by pattern in
\* the order of the pattern list, and for one pattern in the order of the
\* listing (a file once for each pattern it matches).
C9_TraversalOrder ==
    /\ Returned => matches = ExpectedSeq(dirs_include, patterns, TRUE)
    /\ RunDone =>
          /\ ReadLines(content.logic) = ExpectedSeq(LOGIC_DIRS, LOGIC_PATTERNS, TRUE)
          /\ ReadLines(content.style) =
                 ExpectedSeq(LOGIC_DIRS \o STYLE_DIRS, LOGIC_PATTERNS, TRUE)

\* a run has written two files of one directory in the order of the
\* patterns, which is not the order of the directory's listing
C9_Witness ==
    /\ RunDone
    /\ Len(ReadLines(content.logic)) = 2
    /\ ReadLines(content.logic) # ExpectedSeq(LOGIC_DIRS, LOGIC_PATTERNS, FALSE)
    /\ NoDuplicates(ReadLines(content.logic))

\* C10: for every tree, prefix list and pattern list the sequence returned by
\* collect_paths holds each path at most once.
C10_NoDuplicates == Returned => NoDuplicates(matches)

====
